---- MODULE Spec2Model ----
(***************************************************************************)
(* A model of the iryfful search library: the positional inverted index    *)
(* (tokenizer, document, posting lists, Index) and the query engine built  *)
(* on it (doc iterators, advance, the conjunction of MatchingDocIterator,  *)
(* the disjunction, and the term, phrase and boolean queries).             *)
(*                                                                         *)
(* A Rust string is a sequence of one-character strings, so that splitting *)
(* on whitespace, lower-casing and the "field:term" key are computed.      *)
(***************************************************************************)
EXTENDS Integers, Sequences, FiniteSets, TLC

VARIABLES
    doc_id,     \* Index.doc_id: the id the next document is indexed under
    postings,   \* Index.postings: key "field:term" -> PostingImpl
    mappings,   \* Index.mappings: field -> tokenizer (its list of filters)
    res,        \* the last call on the index, what it returned (ok, and the field
                \* of the error or of the set_mapping call), and whether the
                \* document given to add_doc held a field with no mapping
    okCount,    \* history: number of add_doc calls that returned Ok
    failCount,  \* history: number of add_doc calls that returned Err
    firstTok,   \* history: field -> tokenizer of the first set_mapping call for it
    indexed,    \* history: the (field, token) pairs add_doc gave to add_token
    produced,   \* history: per Ok document, the (field, token) pairs its values produced
    its,        \* the Vecs the input doc iterators of a conjunction run over
                \* (for a boolean query: the results of its must sub-queries)
    cur,        \* per input iterator of its, the number of items consumed
    nots,       \* the Vecs the input iterators of a disjunction run over
                \* (for a boolean query: the results of its must_not sub-queries)
    ncur,       \* per input iterator of nots, the number of items consumed
    current_must_not_doc,   \* BooleanQuery::execute: Option<u32>, the must-not cursor
    out,        \* history: what the calls of next() returned so far
    ret,        \* history: the last call on an iterator and what it returned
    pq,         \* the PhraseQuery under study: field, terms, slop
    pimpl,      \* a PostingImpl on its own: docs and positions
    calls,      \* history: the (doc_id, position) of the add_token calls on pimpl
    wst,        \* a WhiteSpaceTokenizer on its own: its filters
    wst_input,  \* history: the inputs of the tokenize calls on wst, each with the
                \* filters wst had at the call
    wst_tokens, \* the tokens the last tokenize call on wst yielded
    document,   \* a Document on its own: Document.fields
    doc_adds,   \* history: the add_field and clear calls on document, in call order
                \* since the last clear
    pc          \* "index", or where the iterator under study is:
                \* "new" (not yet executed), "run", "done" (next() returned None),
                \* "hung" (next() does not return)

ivars == <<doc_id, postings, mappings, res, okCount, failCount, firstTok, produced,
          indexed>>
qvars == <<its, cur, nots, ncur, current_must_not_doc, out, ret, pq, pc>>
uvars == <<pimpl, calls, wst, wst_input, wst_tokens, document, doc_adds>>
vars == <<doc_id, postings, mappings, res, okCount, failCount, firstTok, produced,
          indexed, its, cur, nots, ncur, current_must_not_doc, out, ret, pq, pc,
          pimpl, calls, wst, wst_input, wst_tokens, document, doc_adds>>

(***************************************************************************)
(* Bounds of the model.                                                    *)
(***************************************************************************)
\* at most this many add_doc calls that return Ok
MaxDocs == 2
\* at most this many add_doc calls that return Err
MaxFails == 1
\* at most this many values in one document, over all its fields
MaxVals == 2

Fields == {<<"f">>, <<"g">>}

\* the raw field values documents are built from
Values ==
    { <<" ">>,
      <<" ", "A", " ", " ", "a">>,
      <<"a", " ", "b", " ", "a">> }

\* the tokenizers handed to set_mapping: WhiteSpaceTokenizer with its filters
Tokenizers == { [filters |-> <<>>], [filters |-> <<"LowerCase">>] }

(***************************************************************************)
(* Tokenizer pipeline.                                                     *)
(***************************************************************************)
\* char::is_whitespace, on the characters of the model
is_whitespace(c) == c \in {" ", "\t", "\n"}

\* str::to_lowercase on one character
char_to_lowercase(c) ==
    CASE c = "A" -> "a"
      [] c = "B" -> "b"
      [] c = "C" -> "c"
      [] OTHER -> c

to_lowercase(s) == [i \in 1..Len(s) |-> char_to_lowercase(s[i])]

\* str::split_whitespace: the maximal runs of non-whitespace characters, in order.
\* run_starts is the indices lo..hi of input where a run begins, ascending.
RECURSIVE run_starts(_, _, _)
run_starts(input, lo, hi) ==
    IF lo > hi THEN <<>>
    ELSE IF lo = hi
         THEN IF /\ ~is_whitespace(input[lo])
                 /\ (lo = 1 \/ is_whitespace(input[lo - 1]))
              THEN <<lo>> ELSE <<>>
         ELSE run_starts(input, lo, (lo + hi) \div 2)
                \o run_starts(input, (lo + hi) \div 2 + 1, hi)

\* the index where the run that begins at i ends
run_end(input, i) ==
    CHOOSE j \in i..Len(input) :
        /\ \A k \in i..j : ~is_whitespace(input[k])
        /\ (j = Len(input) \/ is_whitespace(input[j + 1]))

splits(input) ==
    LET starts == run_starts(input, 1, Len(input))
    IN  [n \in 1..Len(starts) |-> SubSeq(input, starts[n], run_end(input, starts[n]))]

\* TokenFilter::apply: changes token.token, leaves token.position
apply(filter, token) ==
    IF filter = "LowerCase"
    THEN [token EXCEPT !.token = to_lowercase(token.token)]
    ELSE token

RECURSIVE apply_filters(_, _, _)
apply_filters(filters, j, token) ==
    IF j > Len(filters) THEN token
    ELSE apply_filters(filters, j + 1, apply(filters[j], token))

\* tokenize as it would be if pos started at 0
tokenize_from_zero(tokenizer, input) ==
    LET parts == splits(input)
    IN  [n \in 1..Len(parts) |->
            apply_filters(tokenizer.filters, 1,
                          [token |-> parts[n], position |-> n - 1])]

\* Tokenizer::tokenize: pos starts at 1 and is incremented per split
tokenize(tokenizer, input) ==
    LET parts == splits(input)
    IN  [n \in 1..Len(parts) |->
            apply_filters(tokenizer.filters, 1, [token |-> parts[n], position |-> n])]

(***************************************************************************)
(* Posting lists.                                                          *)
(***************************************************************************)
\* posting_lists::new
new_posting == [docs |-> <<>>, positions |-> <<>>]

\* DocEntry::new
DocEntry_new(d, offset) == [doc_id |-> d, freqs |-> 0, positions_offset |-> offset]

\* add_token as it would be if it opened a doc entry for every token
add_token_always_new(p, d, position) ==
    [docs |-> Append(p.docs, [doc_id |-> d, freqs |-> 1,
                              positions_offset |-> Len(p.positions)]),
     positions |-> Append(p.positions, position)]

\* add_token as it would be if it compared the doc-id with the first doc entry
add_token_compares_first(p, d, position) ==
    LET create_doc_posting ==
            IF Len(p.docs) = 0 THEN TRUE ELSE p.docs[1].doc_id # d
        docs1 == IF create_doc_posting
                 THEN Append(p.docs, DocEntry_new(d, Len(p.positions)))
                 ELSE p.docs
        last == Len(docs1)
    IN  [docs |-> [docs1 EXCEPT ![last].freqs = @ + 1],
         positions |-> Append(p.positions, position)]

\* add_token as it would be if a new doc entry took the number of doc entries
\* as its positions_offset
add_token_offset_by_docs(p, d, position) ==
    LET create_doc_posting ==
            IF Len(p.docs) = 0 THEN TRUE
            ELSE p.docs[Len(p.docs)].doc_id # d
        docs1 == IF create_doc_posting
                 THEN Append(p.docs, DocEntry_new(d, Len(p.docs)))
                 ELSE p.docs
        last == Len(docs1)
    IN  [docs |-> [docs1 EXCEPT ![last].freqs = @ + 1],
         positions |-> Append(p.positions, position)]

\* add_token as it would be if it counted every token in the first doc entry
add_token_counts_first(p, d, position) ==
    LET create_doc_posting ==
            IF Len(p.docs) = 0 THEN TRUE
            ELSE p.docs[Len(p.docs)].doc_id # d
        docs1 == IF create_doc_posting
                 THEN Append(p.docs, DocEntry_new(d, Len(p.positions)))
                 ELSE p.docs
    IN  [docs |-> [docs1 EXCEPT ![1].freqs = @ + 1],
         positions |-> Append(p.positions, position)]

\* PostingImpl::add_token
add_token(p, d, position) ==
    LET create_doc_posting ==
            IF Len(p.docs) = 0 THEN TRUE
            ELSE p.docs[Len(p.docs)].doc_id # d
        docs1 == IF create_doc_posting
                 THEN Append(p.docs, DocEntry_new(d, Len(p.positions)))
                 ELSE p.docs
        last == Len(docs1)
    IN  [docs |-> [docs1 EXCEPT ![last].freqs = @ + 1],
         positions |-> Append(p.positions, position)]

\* PostingImpl::iter_docs: the DocIdItems, in the order of docs
iter_docs(p) == [i \in 1..Len(p.docs) |-> [doc_id |-> p.docs[i].doc_id]]

\* PostingImpl::iter_docs_pos: the DocIdAndPosItems; positions is the slice
\* positions[offset .. offset + freqs]
iter_docs_pos(p) ==
    [i \in 1..Len(p.docs) |->
        [doc_id |-> p.docs[i].doc_id,
         positions |-> SubSeq(p.positions,
                              p.docs[i].positions_offset + 1,
                              p.docs[i].positions_offset + p.docs[i].freqs)]]

\* EmptyPosting: len() = 0, both iterators empty
empty_posting == [docs |-> <<>>, positions |-> <<>>]

(***************************************************************************)
(* Documents.                                                              *)
(***************************************************************************)
\* the sequences over S of length at most n
SeqsUpTo(S, n) == UNION {[1..m -> S] : m \in 0..n}

\* Document.fields: field -> its values in add_field order; a field that is
\* present has at least one value
Documents ==
    { d \in UNION {[F -> SeqsUpTo(Values, MaxVals) \ {<<>>}] : F \in SUBSET Fields} :
        LET n[F \in SUBSET Fields] ==
                IF F = {} THEN 0
                ELSE LET f == CHOOSE x \in F : TRUE
                     IN  Len(d[f]) + n[F \ {f}]
        IN  n[DOMAIN d] <= MaxVals }

\* Document::default()
new_document == <<>>

\* Document::clear
clear(doc) == new_document

\* Document::is_empty
is_empty(doc) == DOMAIN doc = {}

\* Document::len
len(doc) == Cardinality(DOMAIN doc)

\* add_field as it would be if it inserted a fresh Vec holding the value
add_field_insert(doc, field, value) ==
    [f \in DOMAIN doc \cup {field} |-> IF f = field THEN <<value>> ELSE doc[f]]

\* Document::add_field: entry(field).or_insert_with(Vec::new).push(value)
add_field(doc, field, value) ==
    [f \in DOMAIN doc \cup {field} |->
        IF f # field THEN doc[f]
        ELSE IF field \in DOMAIN doc THEN Append(doc[field], value)
        ELSE <<value>>]

\* Content::new for every value of one field, in insertion order
contents_of(doc, field) ==
    [i \in 1..Len(doc[field]) |-> [field |-> field, value |-> doc[field][i]]]

\* the orders in which a HashMap may yield the given keys
KeyOrders(K) ==
    { o \in [1..Cardinality(K) -> K] : \A i, j \in DOMAIN o : i # j => o[i] # o[j] }

RECURSIVE flat_map(_, _, _)
flat_map(doc, order, i) ==
    IF i > Len(order) THEN <<>>
    ELSE contents_of(doc, order[i]) \o flat_map(doc, order, i + 1)

\* Document::fields under one iteration order of the HashMap
fields(doc, order) == flat_map(doc, order, 1)

(***************************************************************************)
(* Index.                                                                  *)
(***************************************************************************)
\* format!("{}:{}", field, term)
key_of(field, term) == field \o <<":">> \o term

\* the loop over the tokens lo..hi of one value, in order:
\* postings.entry(key).or_insert_with(new) then add_token(self.doc_id, token.position)
RECURSIVE add_tokens(_, _, _, _, _, _)
add_tokens(ps, field, tokens, lo, hi, d) ==
    IF lo > hi THEN ps
    ELSE IF lo = hi
         THEN LET key == key_of(field, tokens[lo].token)
                  posting == IF key \in DOMAIN ps THEN ps[key] ELSE new_posting
                  added == add_token(posting, d, tokens[lo].position)
              IN  (key :> added) @@ ps
         ELSE LET mid == (lo + hi) \div 2
                  first == add_tokens(ps, field, tokens, lo, mid, d)
              IN  \* the tokens lo..mid are added, which leaves at least one
                  \* posting, before the tokens mid+1..hi are
                  CASE DOMAIN first # {} ->
                        add_tokens(first, field, tokens, mid + 1, hi, d)

\* Index::add_doc, the loop over doc.fields(): returns the postings as the call
\* leaves them and the error it returns, if any
RECURSIVE add_doc_loop(_, _, _, _, _)
add_doc_loop(ps, maps, contents, i, d) ==
    IF i > Len(contents) THEN [ok |-> TRUE, postings |-> ps, field |-> <<>>]
    ELSE IF contents[i].field \notin DOMAIN maps
         THEN [ok |-> FALSE, postings |-> ps, field |-> contents[i].field]
         ELSE LET tokens == tokenize(maps[contents[i].field], contents[i].value)
              IN  add_doc_loop(
                     add_tokens(ps, contents[i].field, tokens, 1, Len(tokens), d),
                     maps, contents, i + 1, d)

\* get_postings_list as it would be if a key that is absent were looked up
\* again in lower case
get_postings_list_lowercase(ps, key) ==
    IF key \in DOMAIN ps THEN ps[key]
    ELSE IF to_lowercase(key) \in DOMAIN ps THEN ps[to_lowercase(key)]
    ELSE empty_posting

\* get_postings_list as it would be if it returned some posting of the index
\* for a key that is absent
get_postings_list_any(ps, key) ==
    IF key \in DOMAIN ps THEN ps[key]
    ELSE IF DOMAIN ps # {} THEN ps[CHOOSE k \in DOMAIN ps : TRUE]
    ELSE empty_posting

\* Index::get_postings_list
get_postings_list(ps, key) ==
    IF key \notin DOMAIN ps THEN empty_posting ELSE ps[key]

\* the (field, token) pairs the values of a document produce under the mappings
produced_by(doc, maps) ==
    UNION { { <<fld, tokenize(maps[fld], doc[fld][i])[n].token>> :
                n \in DOMAIN tokenize(maps[fld], doc[fld][i]) } :
            <<fld, i>> \in { <<x, y>> \in (DOMAIN doc) \X (1..MaxVals + 1) :
                                y <= Len(doc[x]) } }

\* the (field, token) pairs add_doc gives to add_token: those of the contents
\* that come before the first content whose field has no mapping
indexed_by(contents, maps) ==
    LET stop == CHOOSE i \in 1..Len(contents) + 1 :
                    /\ i <= Len(contents) => contents[i].field \notin DOMAIN maps
                    /\ \A j \in 1..i - 1 : contents[j].field \in DOMAIN maps
    IN  UNION { { <<contents[i].field, t.token>> :
                    t \in { tokenize(maps[contents[i].field], contents[i].value)[n] :
                              n \in DOMAIN tokenize(maps[contents[i].field],
                                                    contents[i].value) } } :
                i \in 1..stop - 1 }

\* whether the document holds a field that has no mapping
has_unmapped(doc, maps) == \E f \in DOMAIN doc : f \notin DOMAIN maps

NoCall == [op |-> "none", ok |-> TRUE, field |-> <<>>, unmapped |-> FALSE]

\* Option::None for the must-not cursor, and no call made on an iterator yet
NoDoc == [some |-> FALSE, doc_id |-> 0]
NoRet == [call |-> "none"]

\* no phrase query is under study
NoPhrase == [field |-> <<>>, terms |-> <<>>, slop |-> 0]

\* no posting, tokenizer or document is under study on its own
NoUnit ==
    /\ pimpl = new_posting
    /\ calls = <<>>
    /\ wst = [filters |-> <<>>]
    /\ wst_input = <<>>
    /\ wst_tokens = <<>>
    /\ document = new_document
    /\ doc_adds = <<>>

\* no iterator is under study
NoQuery ==
    /\ its = <<>>
    /\ cur = <<>>
    /\ nots = <<>>
    /\ ncur = <<>>
    /\ current_must_not_doc = NoDoc
    /\ out = <<>>
    /\ ret = NoRet
    /\ pq = NoPhrase

\* Index::default()
NewIndex ==
    /\ doc_id = 0
    /\ indexed = {}
    /\ postings = <<>>
    /\ mappings = <<>>
    /\ res = NoCall
    /\ okCount = 0
    /\ failCount = 0
    /\ firstTok = <<>>
    /\ produced = <<>>

Init ==
    /\ NewIndex
    /\ NoQuery
    /\ NoUnit
    /\ pc = "index"

\* set_mapping as it would be if it replaced the tokenizer of a mapped field
\* before returning the error
set_mapping_overwrite(field, tokenizer) ==
    /\ mappings' = [f \in DOMAIN mappings \cup {field} |->
                       IF f = field THEN tokenizer ELSE mappings[f]]
    /\ firstTok' = IF field \in DOMAIN firstTok THEN firstTok
                   ELSE [f \in DOMAIN firstTok \cup {field} |->
                            IF f = field THEN tokenizer ELSE firstTok[f]]
    /\ res' = [op |-> "set_mapping", ok |-> field \notin DOMAIN mappings,
               field |-> field, unmapped |-> FALSE]
    /\ UNCHANGED <<doc_id, postings, okCount, failCount, produced, indexed>>
    /\ UNCHANGED qvars
    /\ UNCHANGED uvars

\* Index::set_mapping(field, tokenizer)
set_mapping(field, tokenizer) ==
    /\ IF field \notin DOMAIN mappings
       THEN /\ mappings' = [f \in DOMAIN mappings \cup {field} |->
                               IF f = field THEN tokenizer ELSE mappings[f]]
            /\ firstTok' = [f \in DOMAIN firstTok \cup {field} |->
                               IF f = field THEN tokenizer ELSE firstTok[f]]
            /\ res' = [op |-> "set_mapping", ok |-> TRUE, field |-> field,
                           unmapped |-> FALSE]
       ELSE /\ mappings' = mappings
            /\ firstTok' = firstTok
            /\ res' = [op |-> "set_mapping", ok |-> FALSE, field |-> field,
                           unmapped |-> FALSE]
    /\ UNCHANGED <<doc_id, postings, okCount, failCount, produced, indexed>>
    /\ UNCHANGED qvars
    /\ UNCHANGED uvars

\* add_doc as it would be if it advanced doc_id before returning the error
add_doc_counts_failure(doc, order) ==
    LET r == add_doc_loop(postings, mappings, fields(doc, order), 1, doc_id)
    IN  /\ IF r.ok THEN okCount < MaxDocs ELSE failCount < MaxFails
        /\ postings' = r.postings
        /\ doc_id' = doc_id + 1
        /\ okCount' = IF r.ok THEN okCount + 1 ELSE okCount
        /\ failCount' = IF r.ok THEN failCount ELSE failCount + 1
        /\ produced' = IF r.ok THEN Append(produced, produced_by(doc, mappings))
                       ELSE produced
        /\ res' = [op |-> "add_doc", ok |-> r.ok, field |-> r.field,
                   unmapped |-> has_unmapped(doc, mappings)]
        /\ indexed' = indexed \cup indexed_by(fields(doc, order), mappings)
        /\ UNCHANGED <<mappings, firstTok>>
        /\ UNCHANGED qvars
        /\ UNCHANGED uvars

\* Index::add_doc(doc), with doc.fields() yielding the fields in the given order
add_doc(doc, order) ==
    LET r == add_doc_loop(postings, mappings, fields(doc, order), 1, doc_id)
    IN  /\ IF r.ok THEN okCount < MaxDocs ELSE failCount < MaxFails
        /\ postings' = r.postings
        /\ doc_id' = IF r.ok THEN doc_id + 1 ELSE doc_id
        /\ okCount' = IF r.ok THEN okCount + 1 ELSE okCount
        /\ failCount' = IF r.ok THEN failCount ELSE failCount + 1
        /\ produced' = IF r.ok THEN Append(produced, produced_by(doc, mappings))
                       ELSE produced
        /\ res' = [op |-> "add_doc", ok |-> r.ok, field |-> r.field,
                   unmapped |-> has_unmapped(doc, mappings)]
        /\ indexed' = indexed \cup indexed_by(fields(doc, order), mappings)
        /\ UNCHANGED <<mappings, firstTok>>
        /\ UNCHANGED qvars
        /\ UNCHANGED uvars

Next ==
    \/ \E field \in Fields, tokenizer \in Tokenizers : set_mapping(field, tokenizer)
    \/ \E doc \in Documents : \E order \in KeyOrders(DOMAIN doc) : add_doc(doc, order)

Spec == Init /\ [][Next]_vars

(***************************************************************************)
(* Queries over the index.                                                 *)
(***************************************************************************)
\* SearchHit::new
SearchHit(d) == [doc_id |-> d]

\* TermQuery::execute: iter_docs of the posting "field:term", mapped to SearchHits
TermQuery_execute(ps, field, term) ==
    LET items == iter_docs(get_postings_list(ps, key_of(field, term)))
    IN  [i \in DOMAIN items |-> SearchHit(items[i].doc_id)]

\* the doc-ids of a sequence of items
doc_ids(items) == [i \in DOMAIN items |-> items[i].doc_id]

\* the elements of a finite set of numbers, in ascending order
RECURSIVE ascending(_)
ascending(S) ==
    IF S = {} THEN <<>>
    ELSE LET m == CHOOSE x \in S : \A y \in S : x <= y
         IN  <<m>> \o ascending(S \ {m})

\* the terms queries ask for: the tokens the values hold, and one they do not
QueryTerms == { <<"a">>, <<"A">>, <<"b">>, <<"c">> }

(***************************************************************************)
(* Doc iterators.  An iterator over a Vec is the Vec and the number of     *)
(* items consumed.  The result iterator of a sub-query is modelled the same *)
(* way, over the hits the sub-query yields.                                *)
(***************************************************************************)
\* the largest doc-id of the inputs iterators are drawn from
MaxDocId == 2
\* the largest number of input iterators (for a boolean query, of sub-queries)
MaxIters == 3

\* std::u32::MAX (4294967295), the start value of min_doc_id.  It is only
\* compared with doc-ids, all of them smaller; the largest integer of TLC
\* stands for it.
U32_MAX == 2147483647

NoItem == [doc_id |-> 0]

\* the Vecs of DocIdItems (or SearchHits) with strictly increasing doc-ids
ItemLists ==
    { [i \in DOMAIN ascending(S) |-> [doc_id |-> ascending(S)[i]]] :
        S \in SUBSET (0..MaxDocId) }

\* Iterator::next of an iterator over a Vec, k items of which are consumed
iter_next(items, k) ==
    IF k < Len(items)
    THEN [some |-> TRUE, item |-> items[k + 1], cur |-> k + 1]
    ELSE [some |-> FALSE, item |-> NoItem, cur |-> k]

\* advance as it would be if it reported a match for every item it stops at
RECURSIVE advance_always_found(_, _, _)
advance_always_found(items, k, target) ==
    LET n == iter_next(items, k)
    IN  IF ~n.some
        THEN [some |-> FALSE, found |-> FALSE, item |-> NoItem, cur |-> n.cur]
        ELSE IF n.item.doc_id >= target
             THEN [some |-> TRUE, found |-> TRUE, item |-> n.item, cur |-> n.cur]
             ELSE advance_always_found(items, n.cur, target)

\* DocIterator::advance on an iterator over a Vec
RECURSIVE advance(_, _, _)
advance(items, k, target) ==
    LET n == iter_next(items, k)
    IN  IF ~n.some
        THEN [some |-> FALSE, found |-> FALSE, item |-> NoItem, cur |-> n.cur]
        ELSE IF n.item.doc_id = target
             THEN [some |-> TRUE, found |-> TRUE, item |-> n.item, cur |-> n.cur]
             ELSE IF n.item.doc_id > target
                  THEN [some |-> TRUE, found |-> FALSE, item |-> n.item, cur |-> n.cur]
                  ELSE advance(items, n.cur, target)

\* MatchingDocIterator::next, "init the docs iteration": one item is pulled
\* from each iterator, in order; none is set when an iterator is exhausted
RECURSIVE init_docs(_, _, _, _, _, _)
init_docs(docs, c, i, current_docs, max_doc_id, min_doc_id) ==
    IF i > Len(docs)
    THEN [none |-> FALSE, cur |-> c, current_docs |-> current_docs,
          max_doc_id |-> max_doc_id, min_doc_id |-> min_doc_id]
    ELSE LET n == iter_next(docs[i], c[i])
         IN  IF ~n.some
             THEN [none |-> TRUE, cur |-> c, current_docs |-> current_docs,
                   max_doc_id |-> max_doc_id, min_doc_id |-> min_doc_id]
             ELSE init_docs(docs, [c EXCEPT ![i] = n.cur], i + 1,
                            Append(current_docs, n.item),
                            IF n.item.doc_id > max_doc_id
                            THEN n.item.doc_id ELSE max_doc_id,
                            IF n.item.doc_id > max_doc_id THEN min_doc_id
                            ELSE IF n.item.doc_id < min_doc_id
                                 THEN n.item.doc_id ELSE min_doc_id)

\* MatchingDocIterator::next, 'matching_loop: the for loop from iterator i on;
\* a restart of the loop is a call with i = 1
RECURSIVE matching_loop(_, _, _, _, _)
matching_loop(docs, c, i, current_docs, max_doc_id) ==
    IF i > Len(docs)
    THEN [some |-> TRUE, doc_id |-> max_doc_id, items |-> current_docs, cur |-> c]
    ELSE IF current_docs[i].doc_id = max_doc_id
         THEN matching_loop(docs, c, i + 1, current_docs, max_doc_id)
         ELSE LET a == advance(docs[i], c[i], max_doc_id)
                  c1 == [c EXCEPT ![i] = a.cur]
              IN  IF ~a.some
                  THEN [some |-> FALSE, doc_id |-> 0, items |-> <<>>, cur |-> c1]
                  ELSE matching_loop(docs, c1, IF a.found THEN i + 1 ELSE 1,
                                     [current_docs EXCEPT ![i] = a.item],
                                     a.item.doc_id)

\* MatchingDocIterator::next
MatchingDocIterator_next(docs, c) ==
    LET start == init_docs(docs, c, 1, <<>>, 0, U32_MAX)
    IN  IF start.none
        THEN [some |-> FALSE, doc_id |-> 0, items |-> <<>>, cur |-> start.cur]
        ELSE IF start.min_doc_id = start.max_doc_id
             THEN [some |-> TRUE, doc_id |-> start.max_doc_id,
                   items |-> start.current_docs, cur |-> start.cur]
             ELSE matching_loop(docs, start.cur, 1, start.current_docs,
                                start.max_doc_id)

\* the iterators of docs that are not exhausted
live(docs, c) == { i \in DOMAIN docs : c[i] < Len(docs[i]) }

\* the disjunction as it would be if it advanced only one of the iterators
\* whose head is the minimum
Disjunction_next_one(docs, c) ==
    IF live(docs, c) = {}
    THEN [some |-> FALSE, item |-> NoItem, cur |-> c]
    ELSE LET m == CHOOSE x \in { docs[i][c[i] + 1].doc_id : i \in live(docs, c) } :
                    \A i \in live(docs, c) : x <= docs[i][c[i] + 1].doc_id
             first == CHOOSE i \in live(docs, c) :
                        /\ docs[i][c[i] + 1].doc_id = m
                        /\ \A j \in live(docs, c) :
                              docs[j][c[j] + 1].doc_id = m => i <= j
         IN  [some |-> TRUE, item |-> SearchHit(m),
              cur |-> [c EXCEPT ![first] = @ + 1]]

\* The disjunction iterator's next: the head of an iterator is its first item
\* not consumed; the minimum head is returned and exactly the iterators whose
\* head is that minimum are advanced; None when every input is exhausted.
Disjunction_next(docs, c) ==
    IF live(docs, c) = {}
    THEN [some |-> FALSE, item |-> NoItem, cur |-> c]
    ELSE LET m == CHOOSE x \in { docs[i][c[i] + 1].doc_id : i \in live(docs, c) } :
                    \A i \in live(docs, c) : x <= docs[i][c[i] + 1].doc_id
         IN  [some |-> TRUE, item |-> SearchHit(m),
              cur |-> [i \in DOMAIN docs |->
                         IF i \in live(docs, c) /\ docs[i][c[i] + 1].doc_id = m
                         THEN c[i] + 1 ELSE c[i]]]

\* DocIterator::advance on the disjunction iterator
RECURSIVE Disjunction_advance(_, _, _)
Disjunction_advance(docs, c, target) ==
    LET n == Disjunction_next(docs, c)
    IN  IF ~n.some
        THEN [some |-> FALSE, found |-> FALSE, item |-> NoItem, cur |-> n.cur]
        ELSE IF n.item.doc_id = target
             THEN [some |-> TRUE, found |-> TRUE, item |-> n.item, cur |-> n.cur]
             ELSE IF n.item.doc_id > target
                  THEN [some |-> TRUE, found |-> FALSE, item |-> n.item, cur |-> n.cur]
                  ELSE Disjunction_advance(docs, n.cur, target)

\* the doc-ids of a Vec of items, as a set
id_set(items) == { items[i].doc_id : i \in DOMAIN items }

\* cursors at the start of n iterators
zeros(n) == [i \in 1..n |-> 0]

strictly_increasing(seq) == \A i, j \in DOMAIN seq : i < j => seq[i] < seq[j]

(***************************************************************************)
(* The conjunction: IndexSearcher::step_on_matching_doc over k iterators,  *)
(* and the calls of next() on the MatchingDocIterator it returns.          *)
(***************************************************************************)
InitConj ==
    /\ NewIndex
    /\ NoUnit
    /\ its \in SeqsUpTo(ItemLists, MaxIters) \ {<<>>}
    /\ cur = zeros(Len(its))
    /\ nots = <<>>
    /\ ncur = <<>>
    /\ current_must_not_doc = NoDoc
    /\ out = <<>>
    /\ ret = NoRet
    /\ pq = NoPhrase
    /\ pc = "run"

conj_next ==
    /\ pc = "run"
    /\ LET r == MatchingDocIterator_next(its, cur)
       IN  /\ cur' = r.cur
           /\ out' = IF r.some
                     THEN Append(out, [doc_id |-> r.doc_id, items |-> r.items])
                     ELSE out
           /\ pc' = IF r.some THEN "run" ELSE "done"
           /\ ret' = [call |-> "next"]
    /\ UNCHANGED <<its, nots, ncur, current_must_not_doc>>
    /\ UNCHANGED ivars
    /\ UNCHANGED uvars
    /\ UNCHANGED pq

NextConj == conj_next

SpecConj == InitConj /\ [][NextConj]_vars

(***************************************************************************)
(* advance and next on one doc iterator.                                   *)
(***************************************************************************)
InitAdvance ==
    /\ NewIndex
    /\ NoUnit
    /\ its \in { <<l>> : l \in ItemLists }
    /\ cur = zeros(1)
    /\ nots = <<>>
    /\ ncur = <<>>
    /\ current_must_not_doc = NoDoc
    /\ out = <<>>
    /\ ret = NoRet
    /\ pq = NoPhrase
    /\ pc = "run"

\* iter.advance(target)
advance_call(target) ==
    /\ pc = "run"
    /\ LET a == advance(its[1], cur[1], target)
       IN  /\ cur' = <<a.cur>>
           /\ ret' = [call |-> "advance", target |-> target, from |-> cur[1],
                      some |-> a.some, found |-> a.found, item |-> a.item]
           /\ out' = IF a.some THEN Append(out, a.item) ELSE out
    /\ UNCHANGED <<its, nots, ncur, current_must_not_doc, pc>>
    /\ UNCHANGED ivars
    /\ UNCHANGED uvars
    /\ UNCHANGED pq

\* iter.next()
next_call ==
    /\ pc = "run"
    /\ LET n == iter_next(its[1], cur[1])
       IN  /\ cur' = <<n.cur>>
           /\ ret' = [call |-> "next", target |-> 0, from |-> cur[1],
                      some |-> n.some, found |-> FALSE, item |-> n.item]
           /\ out' = IF n.some THEN Append(out, n.item) ELSE out
    /\ UNCHANGED <<its, nots, ncur, current_must_not_doc, pc>>
    /\ UNCHANGED ivars
    /\ UNCHANGED uvars
    /\ UNCHANGED pq

NextAdvance ==
    \/ \E target \in 0..MaxDocId + 1 : advance_call(target)
    \/ next_call

SpecAdvance == InitAdvance /\ [][NextAdvance]_vars

(***************************************************************************)
(* The disjunction over N iterators and the calls of next() on it.         *)
(***************************************************************************)
InitDisj ==
    /\ NewIndex
    /\ NoUnit
    /\ its = <<>>
    /\ cur = <<>>
    /\ nots \in SeqsUpTo(ItemLists, MaxIters)
    /\ ncur = zeros(Len(nots))
    /\ current_must_not_doc = NoDoc
    /\ out = <<>>
    /\ ret = NoRet
    /\ pq = NoPhrase
    /\ pc = "run"

disj_next ==
    /\ pc = "run"
    /\ LET r == Disjunction_next(nots, ncur)
       IN  /\ ncur' = r.cur
           /\ out' = IF r.some THEN Append(out, r.item) ELSE out
           /\ pc' = IF r.some THEN "run" ELSE "done"
           /\ ret' = [call |-> "next"]
    /\ UNCHANGED <<its, cur, nots, current_must_not_doc>>
    /\ UNCHANGED ivars
    /\ UNCHANGED uvars
    /\ UNCHANGED pq

NextDisj == disj_next

SpecDisj == InitDisj /\ [][NextDisj]_vars

(***************************************************************************)
(* BooleanQuery::execute over the result iterators of its sub-queries, and *)
(* the calls of next() on the iterator it returns.                         *)
(***************************************************************************)
\* the closure as it would be if it kept its cursor when advance returns an item
on_candidate_keeps_cursor(d, cmn, docs, c) ==
    IF cmn.some /\ cmn.doc_id = d
    THEN [emit |-> FALSE, cmn |-> cmn, cur |-> c]
    ELSE IF cmn.some /\ cmn.doc_id < d
         THEN LET a == Disjunction_advance(docs, c, d)
              IN  IF ~a.some
                  THEN [emit |-> TRUE, cmn |-> NoDoc, cur |-> a.cur]
                  ELSE [emit |-> ~a.found, cmn |-> cmn, cur |-> a.cur]
         ELSE [emit |-> TRUE, cmn |-> cmn, cur |-> c]

\* the closure given to filter_map, on a candidate of the conjunction
on_candidate(d, cmn, docs, c) ==
    IF cmn.some /\ cmn.doc_id = d
    THEN [emit |-> FALSE, cmn |-> cmn, cur |-> c]
    ELSE IF cmn.some /\ cmn.doc_id < d
         THEN LET a == Disjunction_advance(docs, c, d)
              IN  IF ~a.some
                  THEN [emit |-> TRUE, cmn |-> NoDoc, cur |-> a.cur]
                  ELSE [emit |-> ~a.found,
                        cmn |-> [some |-> TRUE, doc_id |-> a.item.doc_id],
                        cur |-> a.cur]
         ELSE [emit |-> TRUE, cmn |-> cmn, cur |-> c]

\* FilterMap::next over conjunction(must_results): candidates are pulled until
\* the closure keeps one or the conjunction ends. When the closure drops a
\* candidate and neither the conjunction nor the must-not cursor has moved, the
\* loop is back where it was and never ends: hung.
RECURSIVE filter_map_next(_, _, _, _, _)
filter_map_next(musts, c, mustnots, nc, cmn) ==
    LET r == MatchingDocIterator_next(musts, c)
    IN  IF ~r.some
        THEN [some |-> FALSE, hung |-> FALSE, item |-> NoItem, cur |-> r.cur,
              ncur |-> nc, cmn |-> cmn]
        ELSE LET f == on_candidate(r.doc_id, cmn, mustnots, nc)
             IN  IF f.emit
                 THEN [some |-> TRUE, hung |-> FALSE, item |-> SearchHit(r.doc_id),
                       cur |-> r.cur, ncur |-> f.cur, cmn |-> f.cmn]
                 ELSE IF /\ \A i \in DOMAIN musts : r.cur[i] = c[i]
                         /\ \A i \in DOMAIN mustnots : f.cur[i] = nc[i]
                         /\ f.cmn = cmn
                      THEN [some |-> FALSE, hung |-> TRUE, item |-> NoItem,
                            cur |-> c, ncur |-> nc, cmn |-> cmn]
                      ELSE filter_map_next(musts, r.cur, mustnots, f.cur, f.cmn)

\* at most this many hits are read from a boolean query
MaxHits == 4

\* a boolean query, given by the hits of its sub-queries
InitBool ==
    /\ NewIndex
    /\ NoUnit
    /\ its \in SeqsUpTo(ItemLists, MaxIters)
    /\ cur = zeros(Len(its))
    /\ nots \in SeqsUpTo(ItemLists, MaxIters - Len(its))
    /\ ncur = zeros(Len(nots))
    /\ current_must_not_doc = NoDoc
    /\ out = <<>>
    /\ ret = NoRet
    /\ pq = NoPhrase
    /\ pc = "new"

\* BooleanQuery::execute: the first item of the must_not disjunction is pulled
bool_execute ==
    /\ pc = "new"
    /\ LET first == Disjunction_next(nots, ncur)
       IN  /\ ncur' = first.cur
           /\ current_must_not_doc' =
                IF first.some THEN [some |-> TRUE, doc_id |-> first.item.doc_id]
                ELSE NoDoc
    /\ pc' = "run"
    /\ ret' = [call |-> "execute"]
    /\ UNCHANGED <<its, cur, nots, out>>
    /\ UNCHANGED ivars
    /\ UNCHANGED uvars
    /\ UNCHANGED pq

\* next() on the iterator BooleanQuery::execute returned
bool_next ==
    /\ pc = "run"
    /\ Len(out) < MaxHits
    /\ LET r == filter_map_next(its, cur, nots, ncur, current_must_not_doc)
       IN  /\ cur' = r.cur
           /\ ncur' = r.ncur
           /\ current_must_not_doc' = r.cmn
           /\ out' = IF r.some THEN Append(out, r.item) ELSE out
           /\ pc' = IF r.hung THEN "hung" ELSE IF r.some THEN "run" ELSE "done"
    /\ ret' = [call |-> "next"]
    /\ UNCHANGED <<its, nots>>
    /\ UNCHANGED ivars
    /\ UNCHANGED uvars
    /\ UNCHANGED pq

NextBool == bool_execute \/ bool_next

SpecBool == InitBool /\ [][NextBool]_vars

(***************************************************************************)
(* PhraseQuery.                                                            *)
(***************************************************************************)
\* the largest slop given to set_slop
MaxSlop == 2
\* at most this many tokens in the short texts, and terms in a phrase
MaxWords == 3
\* the number of tokens between the two terms of the long text
FarGap == 255

PhraseField == <<"f">>
PhraseTerms == {<<"a">>, <<"b">>, <<"c">>}
Words == PhraseTerms \cup {<<"z">>}

\* n times the token w
repeat(w, n) == [i \in 1..n |-> w]

\* the texts of the indexed document, as their tokens: every short text, a
\* text where two tokens separate the third term from the other two, and a
\* text where the two terms are far apart
PhraseTexts ==
    (SeqsUpTo(Words, MaxWords) \ {<<>>})
        \cup { <<<<"a">>, <<"b">>, <<"z">>, <<"z">>, <<"c">>>>,
               <<<<"a">>>> \o repeat(<<"z">>, FarGap) \o <<<<"b">>>> }

\* the field value of a text: its tokens, of one character each, separated by
\* one space
sentence(text) ==
    [i \in 1..2 * Len(text) - 1 |->
        IF i % 2 = 1 THEN text[(i + 1) \div 2][1] ELSE " "]

\* PhraseQuery::new
PhraseQuery_new(field, terms) == [field |-> field, terms |-> terms, slop |-> 1]

\* (*pos as i32 - *posx as i32).abs() as u8, for positions below 2^31
distance_u8(pos, posx) ==
    (IF pos - posx < 0 THEN posx - pos ELSE pos - posx) % 256

\* the closure fit
fit(positions, posx, slop) ==
    \E i \in DOMAIN positions :
        positions[i] # posx /\ distance_u8(positions[i], posx) <= slop

\* the closure past_all_positions
past_all_positions(positions, posx) ==
    \A i \in DOMAIN positions : ~(posx <= positions[i])

\* for posx in termx.positions.iter(), from the j-th position on
RECURSIVE scan_positions(_, _, _, _)
scan_positions(positions, termx, j, slop) ==
    IF j > Len(termx) THEN positions
    ELSE IF fit(positions, termx[j], slop) THEN Append(positions, termx[j])
    ELSE IF past_all_positions(positions, termx[j]) THEN positions
    ELSE scan_positions(positions, termx, j + 1, slop)

\* for termx in terms_rest.iter(), from the t-th term on; n is terms.len()
RECURSIVE for_terms(_, _, _, _, _)
for_terms(positions, terms_rest, t, n, slop) ==
    IF t > Len(terms_rest) THEN [matched |-> FALSE, positions |-> positions]
    ELSE LET p1 == scan_positions(positions, terms_rest[t].positions, 1, slop)
         IN  IF Len(p1) = n THEN [matched |-> TRUE, positions |-> p1]
             ELSE for_terms(p1, terms_rest, t + 1, n, slop)

\* the loop over the passes on terms_rest
RECURSIVE any_order_loop(_, _, _, _, _)
any_order_loop(positions, terms_rest, n, slop, checked_all) ==
    LET r == for_terms(positions, terms_rest, 1, n, slop)
    IN  IF r.matched THEN r
        ELSE IF checked_all /\ Len(positions) = Len(r.positions) THEN r
        ELSE any_order_loop(r.positions, terms_rest, n, slop, TRUE)

\* for pos1 in term1.positions.iter(), from the j-th position on; positions
\* is the Vec as it is at the return of a match
RECURSIVE for_pos1(_, _, _)
for_pos1(terms, j, slop) ==
    IF j > Len(terms[1].positions) THEN [matched |-> FALSE, positions |-> <<>>]
    ELSE LET r == any_order_loop(<<terms[1].positions[j]>>,
                                 SubSeq(terms, 2, Len(terms)), Len(terms), slop,
                                 Len(terms) - 1 = 1)
         IN  IF r.matched THEN r ELSE for_pos1(terms, j + 1, slop)

\* the closure on_match, on a candidate of the conjunction
on_match(d, terms, slop) ==
    LET m == for_pos1(terms, 1, slop)
    IN  IF m.matched
        THEN [some |-> TRUE, item |-> SearchHit(d), positions |-> m.positions]
        ELSE [some |-> FALSE, item |-> NoItem, positions |-> <<>>]

\* FilterMap::next over conjunction(postings) with on_match
RECURSIVE phrase_filter_map_next(_, _, _)
phrase_filter_map_next(docs, c, slop) ==
    LET r == MatchingDocIterator_next(docs, c)
    IN  IF ~r.some
        THEN [some |-> FALSE, item |-> NoItem, cur |-> r.cur, terms |-> <<>>,
              positions |-> <<>>]
        ELSE LET m == on_match(r.doc_id, r.items, slop)
             IN  IF m.some
                 THEN [some |-> TRUE, item |-> m.item, cur |-> r.cur,
                       terms |-> r.items, positions |-> m.positions]
                 ELSE phrase_filter_map_next(docs, r.cur, slop)

\* an index with the whitespace tokenizer mapped to the field and one document
\* added, and a new phrase query of one to three terms
InitPhrase ==
    /\ \E text \in PhraseTexts :
        LET doc == [x \in {PhraseField} |-> <<sentence(text)>>]
            maps == [x \in {PhraseField} |-> [filters |-> <<>>]]
            r == add_doc_loop(<<>>, maps, fields(doc, <<PhraseField>>), 1, 0)
        IN  /\ mappings = maps
            /\ firstTok = maps
            /\ postings = r.postings
            /\ doc_id = 1
            /\ okCount = 1
            /\ failCount = 0
            /\ produced = <<{<<PhraseField, text[n]>> : n \in DOMAIN text}>>
            /\ indexed = {<<PhraseField, text[n]>> : n \in DOMAIN text}
            /\ res = [op |-> "add_doc", ok |-> TRUE, field |-> <<>>,
                      unmapped |-> FALSE]
    /\ \E terms \in SeqsUpTo(PhraseTerms, MaxWords) \ {<<>>} :
        pq = PhraseQuery_new(PhraseField, terms)
    /\ its = <<>>
    /\ cur = <<>>
    /\ nots = <<>>
    /\ ncur = <<>>
    /\ current_must_not_doc = NoDoc
    /\ out = <<>>
    /\ ret = NoRet
    /\ pc = "new"
    /\ NoUnit

\* PhraseQuery::set_slop
set_slop(slop) ==
    /\ pc = "new"
    /\ pq' = [pq EXCEPT !.slop = slop]
    /\ ret' = [call |-> "set_slop"]
    /\ UNCHANGED <<its, cur, nots, ncur, current_must_not_doc, out, pc>>
    /\ UNCHANGED ivars
    /\ UNCHANGED uvars

\* PhraseQuery::execute: the iter_docs_pos iterators of the terms' postings
phrase_execute ==
    /\ pc = "new"
    /\ its' = [i \in DOMAIN pq.terms |->
                 iter_docs_pos(get_postings_list(postings,
                                                 key_of(pq.field, pq.terms[i])))]
    /\ cur' = zeros(Len(pq.terms))
    /\ pc' = "run"
    /\ ret' = [call |-> "execute"]
    /\ UNCHANGED <<nots, ncur, current_must_not_doc, out, pq>>
    /\ UNCHANGED ivars
    /\ UNCHANGED uvars

\* next() on the iterator PhraseQuery::execute returned
phrase_next ==
    /\ pc = "run"
    /\ LET r == phrase_filter_map_next(its, cur, pq.slop)
       IN  /\ cur' = r.cur
           /\ out' = IF r.some THEN Append(out, r.item) ELSE out
           /\ pc' = IF r.some THEN "run" ELSE "done"
           /\ ret' = [call |-> "next", some |-> r.some, terms |-> r.terms,
                      positions |-> r.positions]
    /\ UNCHANGED <<its, nots, ncur, current_must_not_doc, pq>>
    /\ UNCHANGED ivars
    /\ UNCHANGED uvars

NextPhrase ==
    \/ \E slop \in 0..MaxSlop : set_slop(slop)
    \/ phrase_execute
    \/ phrase_next

SpecPhrase == InitPhrase /\ [][NextPhrase]_vars

(***************************************************************************)
(* PhraseQuery over an index of several documents, whose field may hold    *)
(* several values.                                                         *)
(***************************************************************************)
\* at most this many documents in the index
MaxPhraseDocs == 3
\* at most this many values in the index, over all its documents
MaxIndexValues == 4

\* the values of the field, as their tokens
PhraseValues ==
    { <<<<"a">>>>,
      <<<<"b">>, <<"c">>>>,
      <<<<"a">>, <<"z">>, <<"b">>>>,
      <<<<"z">>, <<"b">>>> }

\* the documents: one or two values for the field
PhraseDocuments ==
    { [x \in {PhraseField} |-> [n \in DOMAIN texts |-> sentence(texts[n])]] :
        texts \in SeqsUpTo(PhraseValues, 2) \ {<<>>} }

RECURSIVE values_in(_, _)
values_in(docs, n) ==
    IF n > Len(docs) THEN 0 ELSE Len(docs[n][PhraseField]) + values_in(docs, n + 1)

\* the documents given to add_doc, in call order
PhraseIndexes ==
    { docs \in SeqsUpTo(PhraseDocuments, MaxPhraseDocs) \ {<<>>} :
        values_in(docs, 1) <= MaxIndexValues }

\* the postings after add_doc was called for the documents n.. of docs
RECURSIVE add_docs(_, _, _, _)
add_docs(ps, maps, docs, n) ==
    IF n > Len(docs) THEN ps
    ELSE add_docs(add_doc_loop(ps, maps, fields(docs[n], <<PhraseField>>), 1,
                               n - 1).postings,
                  maps, docs, n + 1)

\* an index with the whitespace tokenizer mapped to the field and the
\* documents added, and a new phrase query of one to three terms
InitPhraseDocs ==
    /\ \E docs \in PhraseIndexes :
        LET maps == [x \in {PhraseField} |-> [filters |-> <<>>]]
        IN  /\ mappings = maps
            /\ firstTok = maps
            /\ postings = add_docs(<<>>, maps, docs, 1)
            /\ doc_id = Len(docs)
            /\ okCount = Len(docs)
            /\ failCount = 0
            /\ produced = [n \in DOMAIN docs |-> produced_by(docs[n], maps)]
            /\ indexed = UNION { produced_by(docs[n], maps) : n \in DOMAIN docs }
            /\ res = [op |-> "add_doc", ok |-> TRUE, field |-> <<>>,
                      unmapped |-> FALSE]
    /\ \E terms \in SeqsUpTo(PhraseTerms, MaxWords) \ {<<>>} :
        pq = PhraseQuery_new(PhraseField, terms)
    /\ its = <<>>
    /\ cur = <<>>
    /\ nots = <<>>
    /\ ncur = <<>>
    /\ current_must_not_doc = NoDoc
    /\ out = <<>>
    /\ ret = NoRet
    /\ pc = "new"
    /\ NoUnit

NextPhraseDocs ==
    \/ phrase_execute
    \/ phrase_next

SpecPhraseDocs == InitPhraseDocs /\ [][NextPhraseDocs]_vars

(***************************************************************************)
(* IndexSearcher::search read to the end: the hits of a query, for a       *)
(* boolean query with at least one must sub-query.                         *)
(***************************************************************************)
\* the hits of the iterator PhraseQuery::execute returns, from cursors c on
RECURSIVE phrase_collect(_, _, _)
phrase_collect(docs, c, slop) ==
    LET r == phrase_filter_map_next(docs, c, slop)
    IN  IF ~r.some THEN <<>>
        ELSE <<r.item>> \o phrase_collect(docs, r.cur, slop)

\* search(PhraseQuery) on the postings ps
PhraseQuery_search(ps, q) ==
    phrase_collect([i \in DOMAIN q.terms |->
                      iter_docs_pos(get_postings_list(ps, key_of(q.field, q.terms[i])))],
                   zeros(Len(q.terms)), q.slop)

\* the hits of the iterator BooleanQuery::execute returns, from cursors on
RECURSIVE bool_collect(_, _, _, _, _)
bool_collect(musts, c, mustnots, nc, cmn) ==
    LET r == filter_map_next(musts, c, mustnots, nc, cmn)
    IN  IF ~r.some THEN <<>>
        ELSE <<r.item>> \o bool_collect(musts, r.cur, mustnots, r.ncur, r.cmn)

\* search(BooleanQuery) given the hits of its sub-queries
BooleanQuery_search(musts, mustnots) ==
    LET first == Disjunction_next(mustnots, zeros(Len(mustnots)))
    IN  bool_collect(musts, zeros(Len(musts)), mustnots, first.cur,
                     IF first.some THEN [some |-> TRUE, doc_id |-> first.item.doc_id]
                     ELSE NoDoc)

(***************************************************************************)
(* A posting on its own: add_token calls on a new PostingImpl.             *)
(***************************************************************************)
\* at most this many add_token calls
MaxCalls == 4
\* the largest position given to add_token
MaxPos == 2

\* posting_lists::new()
InitPosting ==
    /\ NewIndex
    /\ NoQuery
    /\ NoUnit
    /\ pc = "posting"

\* PostingImpl::add_token(doc_id, position)
add_token_call(d, position) ==
    /\ Len(calls) < MaxCalls
    /\ pimpl' = add_token(pimpl, d, position)
    /\ calls' = Append(calls, [doc_id |-> d, position |-> position])
    /\ UNCHANGED <<wst, wst_input, wst_tokens, document, doc_adds>>
    /\ UNCHANGED ivars
    /\ UNCHANGED qvars

NextPosting ==
    \E d \in 0..MaxDocId, position \in 1..MaxPos : add_token_call(d, position)

SpecPosting == InitPosting /\ [][NextPosting]_vars

(***************************************************************************)
(* A tokenizer on its own: add_filter and tokenize calls on a new          *)
(* WhiteSpaceTokenizer, every tokenize iterator read to the end.           *)
(***************************************************************************)
\* at most this many characters in an input
MaxLen == 4
\* at most this many tokenize calls
MaxTokenizeCalls == 2
\* at most this many add_filter calls
MaxFilters == 2

Chars == {" ", "\n", "a", "B"}
Inputs == SeqsUpTo(Chars, MaxLen)

\* WhiteSpaceTokenizer::new()
InitTokenizer ==
    /\ NewIndex
    /\ NoQuery
    /\ NoUnit
    /\ pc = "tokenizer"

\* WhiteSpaceTokenizer::add_filter
add_filter(filter) ==
    /\ Len(wst.filters) < MaxFilters
    /\ wst' = [filters |-> Append(wst.filters, filter)]
    /\ UNCHANGED <<pimpl, calls, wst_input, wst_tokens, document, doc_adds>>
    /\ UNCHANGED ivars
    /\ UNCHANGED qvars

\* Tokenizer::tokenize(input), collected
tokenize_call(inp) ==
    /\ Len(wst_input) < MaxTokenizeCalls
    /\ wst_tokens' = tokenize(wst, inp)
    /\ wst_input' = Append(wst_input, [input |-> inp, filters |-> wst.filters])
    /\ UNCHANGED <<pimpl, calls, wst, document, doc_adds>>
    /\ UNCHANGED ivars
    /\ UNCHANGED qvars

NextTokenizer ==
    \/ add_filter("LowerCase")
    \/ \E inp \in Inputs : tokenize_call(inp)

SpecTokenizer == InitTokenizer /\ [][NextTokenizer]_vars

(***************************************************************************)
(* A Document on its own: add_field and clear calls on Document::default().*)
(***************************************************************************)
\* at most this many add_field and clear calls
MaxAdds == 4

InitDocument ==
    /\ NewIndex
    /\ NoQuery
    /\ NoUnit
    /\ pc = "document"

\* document.add_field(field, value)
add_field_call(field, value) ==
    /\ Len(doc_adds) < MaxAdds
    /\ document' = add_field(document, field, value)
    /\ doc_adds' = Append(doc_adds, [op |-> "add_field", field |-> field, value |-> value])
    /\ UNCHANGED <<pimpl, calls, wst, wst_input, wst_tokens>>
    /\ UNCHANGED ivars
    /\ UNCHANGED qvars

\* document.clear()
clear_call ==
    /\ Len(doc_adds) < MaxAdds
    /\ document' = clear(document)
    /\ doc_adds' = Append(doc_adds, [op |-> "clear", field |-> <<>>, value |-> <<>>])
    /\ UNCHANGED <<pimpl, calls, wst, wst_input, wst_tokens>>
    /\ UNCHANGED ivars
    /\ UNCHANGED qvars

NextDocument ==
    \/ \E field \in Fields, value \in Values : add_field_call(field, value)
    \/ clear_call

SpecDocument == InitDocument /\ [][NextDocument]_vars

(***************************************************************************)
(* The claims about the index.                                             *)
(***************************************************************************)

\* C1: an add_doc call given a document with a field that has no mapping
\* returns MissingFieldMapping for an unmapped field and leaves the postings
\* as they were.
C1_FailedAddDocLeavesPostings ==
    [][(res'.op = "add_doc" /\ res'.unmapped)
         => (/\ ~res'.ok
             /\ res'.field \notin DOMAIN mappings
             /\ postings' = postings)]_vars

\* C2: doc_id is the number of add_doc calls that returned Ok, and the n-th
\* document that was indexed has its tokens in the postings under id n - 1.
C2_DocIdCountsOkDocs ==
    /\ doc_id = okCount
    /\ \A n \in DOMAIN produced : \A ft \in produced[n] :
          /\ key_of(ft[1], ft[2]) \in DOMAIN postings
          /\ \E e \in DOMAIN postings[key_of(ft[1], ft[2])].docs :
                postings[key_of(ft[1], ft[2])].docs[e].doc_id = n - 1

\* C2's case: a document indexed after an add_doc call that failed
C2_Witness ==
    /\ failCount > 0
    /\ okCount = 2
    /\ res.op = "add_doc" /\ res.ok
    /\ produced[2] # {}

\* C3: set_mapping on a field that has a tokenizer returns the error for that
\* field and changes nothing: every field keeps the tokenizer of the first call.
C3_SecondMappingRejected ==
    /\ [](mappings = firstTok)
    /\ [][res'.op = "set_mapping"
            => /\ res'.ok <=> res'.field \notin DOMAIN mappings
               /\ ~res'.ok => (/\ mappings' = mappings
                               /\ postings' = postings
                               /\ doc_id' = doc_id)]_vars

\* C3's case: documents indexed after a rejected set_mapping of a mapped field
C3_Witness ==
    /\ res.op = "set_mapping" /\ ~res.ok
    /\ res.field \in DOMAIN mappings
    /\ okCount > 0

\* C9: when no add_doc call failed, TermQuery(field, term) emits the ids of the
\* documents that produced the token term in that field, ascending, each once.
C9_TermQueryHits ==
    failCount = 0 =>
        \A field \in Fields, term \in QueryTerms :
            doc_ids(TermQuery_execute(postings, field, term))
                = ascending({n - 1 : n \in {m \in DOMAIN produced :
                                                <<field, term>> \in produced[m]}})

\* C9's case: a term that is in the second document only, twice
C9_Witness ==
    /\ failCount = 0
    /\ okCount = 2
    /\ \E field \in Fields, term \in QueryTerms :
          /\ doc_ids(TermQuery_execute(postings, field, term)) = <<1>>
          /\ get_postings_list(postings, key_of(field, term)).docs[1].freqs = 2

(***************************************************************************)
(* The claims about the doc iterators.                                     *)
(***************************************************************************)
\* the doc-ids every Vec of docs holds, and those at least one holds
in_all(docs) == { d \in 0..MaxDocId : \A i \in DOMAIN docs : d \in id_set(docs[i]) }
in_some(docs) == { d \in 0..MaxDocId : \E i \in DOMAIN docs : d \in id_set(docs[i]) }

\* C4: the hits of a boolean query are the doc-ids every must sub-query yields
\* and no must_not sub-query yields, in ascending order.
C4_BooleanIsMustMinusMustNot ==
    /\ strictly_increasing(doc_ids(out))
    /\ id_set(out) \subseteq in_all(its) \ in_some(nots)
    /\ pc = "done" => id_set(out) = in_all(its) \ in_some(nots)

\* C5: the doc-ids the conjunction of k >= 1 iterators emits are the doc-ids
\* all k inputs hold, in strictly increasing order.
C5_ConjunctionIsIntersection ==
    /\ strictly_increasing(doc_ids(out))
    /\ id_set(out) \subseteq in_all(its)
    /\ pc = "done" => id_set(out) = in_all(its)

\* the heads of the disjunction's inputs: the doc-id of the first item of each
\* input that is not consumed
heads == { nots[i][ncur[i] + 1].doc_id : i \in live(nots, ncur) }

\* C6: the disjunction emits the union of its inputs' doc-ids, strictly
\* ascending and each once; what it emits is the minimum head, it advances
\* exactly the inputs whose head is that minimum, and it ends only when all
\* inputs are exhausted.
C6_DisjunctionIsUnion ==
    /\ [](/\ strictly_increasing(doc_ids(out))
          /\ id_set(out) \subseteq in_some(nots)
          /\ pc = "done" => /\ id_set(out) = in_some(nots)
                            /\ \A i \in DOMAIN nots : ncur[i] = Len(nots[i]))
    /\ [][Len(out') = Len(out) + 1
            => /\ \A h \in heads : out'[Len(out')].doc_id <= h
               /\ out'[Len(out')].doc_id \in heads
               /\ \A i \in DOMAIN nots :
                    ncur'[i] = IF /\ i \in live(nots, ncur)
                                  /\ nots[i][ncur[i] + 1].doc_id = out'[Len(out')].doc_id
                               THEN ncur[i] + 1 ELSE ncur[i]]_vars

\* C6's case: three inputs, two of which hold the same doc-id, read to the end
C6_Witness ==
    /\ pc = "done"
    /\ Len(nots) = 3
    /\ Len(out) = 3
    /\ \E i, j \in DOMAIN nots : i # j /\ id_set(nots[i]) \cap id_set(nots[j]) # {}
    /\ \E i \in DOMAIN nots : nots[i] = <<>>

\* C10: advance(t) returns the first item not yet consumed whose doc-id is at
\* least t, with the flag true iff the doc-id is t, and None iff there is no
\* such item; it consumes the items up to and including the one it returns, so
\* that the following next() yields the item right after it.
C10_AdvanceLaw ==
    /\ [](ret.call = "advance" =>
            LET items == its[1]
                rest == { j \in ret.from + 1..Len(items) :
                            items[j].doc_id >= ret.target }
            IN  IF rest = {}
                THEN ~ret.some /\ cur[1] = Len(items)
                ELSE LET j0 == CHOOSE j \in rest : \A x \in rest : j <= x
                     IN  /\ ret.some
                         /\ ret.item = items[j0]
                         /\ ret.found <=> items[j0].doc_id = ret.target
                         /\ cur[1] = j0)
    /\ [][(ret.call = "advance" /\ ret.some /\ ret'.call = "next")
            => IF cur[1] < Len(its[1])
               THEN ret'.some /\ ret'.item = its[1][cur[1] + 1]
                    /\ its[1][cur[1]] = ret.item
               ELSE ~ret'.some]_vars

\* C10's case: an advance that skips the first item and returns the second,
\* then a next() that yields the third
C10_Witness ==
    /\ its[1] = <<[doc_id |-> 0], [doc_id |-> 1], [doc_id |-> 2]>>
    /\ doc_ids(out) = <<1, 2>>
    /\ ret.call = "next" /\ ret.some
    /\ ret.from = 2

(***************************************************************************)
(* The claims about PhraseQuery.                                           *)
(***************************************************************************)
\* the positions of a term in document d, as the posting of the field holds them
positions_in(d, field, term) ==
    LET items == iter_docs_pos(get_postings_list(postings, key_of(field, term)))
    IN  UNION { { items[i].positions[j] : j \in DOMAIN items[i].positions } :
                i \in { x \in DOMAIN items : items[x].doc_id = d } }

\* document d holds one position per term of the phrase, pairwise distinct and
\* every two of them at most slop apart
all_pairs_within(d, q) ==
    LET P == UNION { positions_in(d, q.field, q.terms[i]) : i \in DOMAIN q.terms }
    IN  \E w \in [DOMAIN q.terms -> P] :
            /\ \A i \in DOMAIN w : w[i] \in positions_in(d, q.field, q.terms[i])
            /\ \A i, j \in DOMAIN w :
                 i # j => /\ w[i] # w[j]
                          /\ w[i] - w[j] <= q.slop
                          /\ w[j] - w[i] <= q.slop

\* C7: a phrase query emits document d iff d holds one position per term,
\* pairwise distinct, with every pair at most slop apart.
C7_PhraseIsAllPairsWithinSlop ==
    pc = "done" =>
        \A d \in 0..doc_id - 1 : d \in id_set(out) <=> all_pairs_within(d, pq)

\* C8: a two-term phrase query emits document d iff d holds a position p of
\* the first term and a position q of the second with p # q and |p - q| <= slop.
C8_TwoTermPhrase ==
    (pc = "done" /\ Len(pq.terms) = 2) =>
        \A d \in 0..doc_id - 1 :
            d \in id_set(out) <=>
                \E p \in positions_in(d, pq.field, pq.terms[1]),
                   q \in positions_in(d, pq.field, pq.terms[2]) :
                    p # q /\ p - q <= pq.slop /\ q - p <= pq.slop

(***************************************************************************)
(* The claims about a posting.                                             *)
(***************************************************************************)
\* the positions of the add_token calls made with doc-id d, in call order
positions_given(d) ==
    LET sel == SelectSeq(calls, LAMBDA c : c.doc_id = d)
    IN  [i \in DOMAIN sel |-> sel[i].position]

\* C11: when the doc-ids of the add_token calls are non-decreasing, iter_docs
\* and iter_docs_pos yield strictly increasing doc-ids, one item per distinct
\* doc-id, and the positions of each item are those of the calls made with its
\* doc-id, in call order.
C11_PostingMonotonic ==
    (\A i, j \in DOMAIN calls : i < j => calls[i].doc_id <= calls[j].doc_id)
        => /\ strictly_increasing(doc_ids(iter_docs(pimpl)))
           /\ id_set(iter_docs(pimpl)) = id_set(calls)
           /\ doc_ids(iter_docs_pos(pimpl)) = doc_ids(iter_docs(pimpl))
           /\ \A k \in DOMAIN iter_docs_pos(pimpl) :
                 iter_docs_pos(pimpl)[k].positions
                    = positions_given(iter_docs_pos(pimpl)[k].doc_id)

\* C11's case: four calls, two with doc-id 0 and then two with doc-id 2, the
\* positions of the second doc not ascending
C11_Witness ==
    /\ doc_ids(calls) = <<0, 0, 2, 2>>
    /\ iter_docs_pos(pimpl) = <<[doc_id |-> 0, positions |-> <<1, 2>>],
                                [doc_id |-> 2, positions |-> <<2, 1>>]>>

\* the slices iter_docs_pos yields, from the i-th on, one after the other
RECURSIVE concat_positions(_, _)
concat_positions(items, i) ==
    IF i > Len(items) THEN <<>>
    ELSE items[i].positions \o concat_positions(items, i + 1)

RECURSIVE sum_freqs(_, _)
sum_freqs(docs, i) ==
    IF i > Len(docs) THEN 0 ELSE docs[i].freqs + sum_freqs(docs, i + 1)

\* C12: after any add_token calls the first doc entry has offset 0, every
\* other starts where the one before it ends, the freqs sum to the length of
\* positions, and the slices of iter_docs_pos concatenated are positions.
C12_PositionsFraming ==
    /\ Len(pimpl.docs) > 0 => pimpl.docs[1].positions_offset = 0
    /\ \A i \in 1..Len(pimpl.docs) - 1 :
          pimpl.docs[i + 1].positions_offset
             = pimpl.docs[i].positions_offset + pimpl.docs[i].freqs
    /\ sum_freqs(pimpl.docs, 1) = Len(pimpl.positions)
    /\ Len(pimpl.positions) = Len(calls)
    /\ concat_positions(iter_docs_pos(pimpl), 1) = pimpl.positions
    /\ pimpl.positions = [i \in DOMAIN calls |-> calls[i].position]

\* C12's case: calls whose doc-ids go down and up again, which leaves three
\* doc entries
C12_Witness ==
    /\ doc_ids(calls) = <<1, 1, 0, 1>>
    /\ Len(pimpl.docs) = 3
    /\ pimpl.docs[3].positions_offset = 3

(***************************************************************************)
(* The claims about lookups and queries on unknown keys.                   *)
(***************************************************************************)
\* C13: get_postings_list returns the empty posting (len 0, both iterators
\* empty) for a key no indexed token produced, in every state of the index,
\* and the posting stored under the key for a key that was produced.
C13_UnknownKeyIsEmptyPosting ==
    \A field \in Fields, term \in QueryTerms :
        LET p == get_postings_list(postings, key_of(field, term))
        IN  IF <<field, term>> \in indexed
            THEN /\ key_of(field, term) \in DOMAIN postings
                 /\ p = postings[key_of(field, term)]
                 /\ Len(p.docs) > 0
            ELSE /\ p = empty_posting
                 /\ Len(p.docs) = 0
                 /\ iter_docs(p) = <<>>
                 /\ iter_docs_pos(p) = <<>>

\* C13's case: a document was indexed through the LowerCase filter, so that
\* the key f:a was produced and the key f:A was not
C13_Witness ==
    /\ okCount > 0
    /\ <<<<"f">>, <<"a">>>> \in indexed
    /\ <<<<"f">>, <<"A">>>> \notin indexed
    /\ get_postings_list(postings, key_of(<<"f">>, <<"A">>)) = empty_posting
    /\ Len(get_postings_list(postings, key_of(<<"f">>, <<"a">>)).docs) > 0

\* the term lists of one to three terms that hold the term: it is put at
\* every place of every list of at most two of the terms a and b
lists_with(term) ==
    { SubSeq(o, 1, i) \o <<term>> \o SubSeq(o, i + 1, Len(o)) :
        <<o, i>> \in { <<x, y>> \in SeqsUpTo({<<"a">>, <<"b">>}, 2) \X (0..2) :
                        y <= Len(x) } }

\* C14: a query on a field and term that no indexed token produced yields no
\* error: a TermQuery on it has no hit, a PhraseQuery whose terms hold it has
\* no hit, a BooleanQuery with it as a must clause has no hit, and as a
\* must_not clause it removes no hit.
C14_UnknownTermNoHit ==
    \A field \in Fields, term \in QueryTerms :
        <<field, term>> \notin indexed =>
            /\ TermQuery_execute(postings, field, term) = <<>>
            /\ \A terms \in lists_with(term) :
                  PhraseQuery_search(postings, PhraseQuery_new(field, terms)) = <<>>
            /\ \A f2 \in Fields, t2 \in {<<"a">>, <<"b">>} :
                  /\ BooleanQuery_search(
                        <<TermQuery_execute(postings, field, term),
                          TermQuery_execute(postings, f2, t2)>>, <<>>) = <<>>
                  /\ BooleanQuery_search(
                        <<TermQuery_execute(postings, f2, t2),
                          TermQuery_execute(postings, field, term)>>, <<>>) = <<>>
                  /\ BooleanQuery_search(
                        <<TermQuery_execute(postings, f2, t2)>>,
                        <<TermQuery_execute(postings, field, term)>>)
                       = TermQuery_execute(postings, f2, t2)

\* C14's case: two documents hold the term a of field f and none holds the
\* term c: the phrase [a, c] has no hit and must_not c removes no hit of a
C14_Witness ==
    /\ <<<<"f">>, <<"c">>>> \notin indexed
    /\ doc_ids(TermQuery_execute(postings, <<"f">>, <<"a">>)) = <<0, 1>>
    /\ PhraseQuery_search(postings, [field |-> <<"f">>, slop |-> 1,
                                     terms |-> <<<<"a">>, <<"c">>>>]) = <<>>
    /\ doc_ids(BooleanQuery_search(
                  <<TermQuery_execute(postings, <<"f">>, <<"a">>)>>,
                  <<TermQuery_execute(postings, <<"f">>, <<"c">>)>>)) = <<0, 1>>

\* C15: the doc-ids of the hits of a query are strictly increasing, here for
\* a boolean query over the hits of its sub-queries.
C15_HitsStrictlyIncreasing == strictly_increasing(doc_ids(out))

(***************************************************************************)
(* More claims about PhraseQuery.                                          *)
(***************************************************************************)
\* document d holds the terms of the phrase at as many consecutive positions,
\* one position per term, in any order
consecutive(d, q) ==
    LET P == UNION { positions_in(d, q.field, q.terms[i]) : i \in DOMAIN q.terms }
    IN  \E w \in [DOMAIN q.terms -> P] :
            /\ \A i \in DOMAIN w : w[i] \in positions_in(d, q.field, q.terms[i])
            /\ \A i, j \in DOMAIN w :
                 i # j => /\ w[i] # w[j]
                          /\ w[i] - w[j] < Len(q.terms)
                          /\ w[j] - w[i] < Len(q.terms)

\* C16: with the default slop 1, a phrase query of k terms emits every
\* document that holds the k terms at k consecutive positions, in any order.
C16_ConsecutiveTermsMatch ==
    (pc = "done" /\ pq.slop = 1) =>
        \A d \in 0..doc_id - 1 : consecutive(d, pq) => d \in id_set(out)

\* the term lists that are the terms of the phrase in another order
permutations(terms) ==
    { [i \in DOMAIN terms |-> terms[o[i]]] : o \in KeyOrders(DOMAIN terms) }

\* C17: a phrase query emits the same doc-ids whatever the order of its terms.
C17_TermOrderIrrelevant ==
    pc = "done" =>
        \A terms \in permutations(pq.terms) :
            doc_ids(PhraseQuery_search(postings, [pq EXCEPT !.terms = terms]))
                = doc_ids(out)

(***************************************************************************)
(* The claim about nested boolean queries.                                 *)
(***************************************************************************)
\* C18: a boolean query whose must clauses are two boolean queries with the
\* must clauses A and B emits the doc-ids of the boolean query with the must
\* clauses A ++ B; a boolean query with the must clauses M and, as its only
\* must_not clause, a boolean query with the must clauses A emits the hits of
\* M that are not in the intersection of the results of A.
C18_NestingKeepsMeaning ==
    pc = "done" =>
        /\ nots = <<>> =>
              \A n \in 1..Len(its) - 1 :
                  doc_ids(BooleanQuery_search(
                      <<BooleanQuery_search(SubSeq(its, 1, n), <<>>),
                        BooleanQuery_search(SubSeq(its, n + 1, Len(its)), <<>>)>>,
                      <<>>)) = doc_ids(out)
        /\ (Len(its) >= 1 /\ Len(nots) >= 1) =>
              doc_ids(BooleanQuery_search(its, <<BooleanQuery_search(nots, <<>>)>>))
                = ascending(id_set(BooleanQuery_search(its, <<>>)) \ in_all(nots))

(***************************************************************************)
(* The claim about the tokenizer.                                          *)
(***************************************************************************)
\* the maximal runs of non-whitespace characters of inp, as (first, last)
maximal_runs(inp) ==
    { r \in (1..Len(inp)) \X (1..Len(inp)) :
        /\ r[1] <= r[2]
        /\ \A k \in r[1]..r[2] : inp[k] \notin {" ", "\n"}
        /\ (r[1] = 1 \/ inp[r[1] - 1] \in {" ", "\n"})
        /\ (r[2] = Len(inp) \/ inp[r[2] + 1] \in {" ", "\n"}) }

since_clear ==
    LET clears == { i \in DOMAIN doc_adds : doc_adds[i].op = "clear" }
        from == IF clears = {} THEN 1
                ELSE 1 + CHOOSE i \in clears : \A j \in clears : j <= i
    IN  [i \in 1..(Len(doc_adds) - from + 1) |->
            [field |-> doc_adds[from + i - 1].field,
             value |-> doc_adds[from + i - 1].value]]

\* how many members of the sequence are equal to x
occurrences(seq, x) == Cardinality({ i \in DOMAIN seq : seq[i] = x })

\* the members of the sequence that are of the given field, in order
of_field(seq, f) ==
    LET at == { i \in DOMAIN seq : seq[i].field = f }
    IN  [n \in 1..Cardinality(at) |->
            seq[CHOOSE i \in at : Cardinality({ j \in at : j < i }) = n - 1]]

\* C20: after any add_field and clear calls, len() is the number of distinct
\* fields added since the last clear, is_empty() holds iff that number is 0,
\* and fields() yields every (field, value) added since the last clear as many
\* times as it was added, the values of one field in insertion order.
C20_DocumentContents ==
    LET added == since_clear
        names == { added[i].field : i \in DOMAIN added }
    IN  /\ len(document) = Cardinality(names)
        /\ is_empty(document) <=> Cardinality(names) = 0
        /\ \A order \in KeyOrders(DOMAIN document) :
              LET yielded == fields(document, order)
              IN  /\ Len(yielded) = Len(added)
                  /\ \A i \in DOMAIN added :
                        occurrences(yielded, added[i]) = occurrences(added, added[i])
                  /\ \A f \in Fields : of_field(yielded, f) = of_field(added, f)

\* C20's case: after a clear, a pair added twice around a pair of another field
C20_Witness ==
    /\ Len(doc_adds) = 4
    /\ doc_adds[1].op = "clear"
    /\ doc_adds[2] = [op |-> "add_field", field |-> <<"f">>, value |-> <<" ">>]
    /\ doc_adds[3].op = "add_field" /\ doc_adds[3].field = <<"g">>
    /\ doc_adds[4] = doc_adds[2]
    /\ len(document) = 2
    /\ document[<<"f">>] = << <<" ">>, <<" ">> >>

(***************************************************************************)
(* Further claims about the conjunction.                                   *)
(***************************************************************************)
\* C21: every (doc_id, items) the conjunction over N >= 1 inputs emits has
\* exactly N items, item i is an item input i has produced, and every item
\* has the emitted doc-id.
C21_EmittedItemsMatch ==
    \A n \in DOMAIN out :
        /\ Len(out[n].items) = Len(its)
        /\ \A i \in DOMAIN its :
              /\ \E k \in 1..cur[i] : out[n].items[i] = its[i][k]
              /\ out[n].items[i].doc_id = out[n].doc_id

(***************************************************************************)
(* Termination of the result iterators.                                    *)
(***************************************************************************)
\* the state of the iterator BooleanQuery::execute returns: the cursors of the
\* must and must_not results and the must-not cursor of the closure
iterator_state == <<cur, ncur, current_must_not_doc>>

\* C22: for every boolean query, with any number of must clauses (zero
\* included) and of must_not clauses, every call of next() returns and after
\* finitely many hits the iterator returns None. A call that returns a hit
\* moves the iterator on: a hit that leaves the iterator where it was comes
\* again on every later call, without end.
C22_EveryQueryTerminates ==
    [][/\ pc' # "hung"
       /\ (pc = "run" /\ pc' = "run") => iterator_state' # iterator_state]_vars

(***************************************************************************)
(* Further claims about the phrase query.                                  *)
(***************************************************************************)
\* the ways to give each of n chosen positions a term of its own
one_term_each(n) ==
    { f \in [1..n -> 1..n] : \A i, j \in 1..n : i # j => f[i] # f[j] }

\* C23: when PhraseQuery declares a match, the working set of chosen positions
\* holds no position twice, holds exactly one position for each of the k
\* terms, and each position added after the first is within slop of a
\* position chosen before it.
C23_WorkingSetAtMatch ==
    (ret.call = "next" /\ pq.terms # <<>> /\ ret.some) =>
        LET W == ret.positions
            k == Len(pq.terms)
        IN  /\ \A i, j \in DOMAIN W : i # j => W[i] # W[j]
            /\ Len(W) = k
            /\ \E f \in one_term_each(k) :
                  \A n \in 1..k :
                      \E x \in DOMAIN ret.terms[f[n]].positions :
                          ret.terms[f[n]].positions[x] = W[n]
            /\ \A n \in 2..Len(W) :
                  \E m \in 1..n - 1 :
                      W[n] - W[m] \in (0 - pq.slop)..pq.slop

\* C24: a phrase query of exactly one term emits the hits of the term query
\* on the same field and term.
C24_OneTermPhraseIsTermQuery ==
    (pc = "done" /\ Len(pq.terms) = 1) =>
        doc_ids(out) = doc_ids(TermQuery_execute(postings, pq.field, pq.terms[1]))

\* C25: every doc-id a phrase query of k >= 1 terms emits is emitted by the
\* term query of each of its terms, and the positions tested for a term are
\* those of that term in the emitted document.
C25_PhraseHitHoldsEveryTerm ==
    /\ \A n \in DOMAIN out : \A i \in DOMAIN pq.terms :
          out[n].doc_id
              \in id_set(TermQuery_execute(postings, pq.field, pq.terms[i]))
    /\ (ret.call = "next" /\ ret.some) =>
          \A i \in DOMAIN pq.terms :
              /\ ret.terms[i].doc_id = out[Len(out)].doc_id
              /\ \E x \in DOMAIN its[i] : its[i][x] = ret.terms[i]

\* the positions the iterators of the phrase's terms hold
term_positions ==
    UNION { { its[i][n].positions[x] : x \in DOMAIN its[i][n].positions } :
            <<i, n>> \in { <<i, n>> \in (DOMAIN its) \X (1..MaxWords) :
                              n <= Len(its[i]) } }

\* C26: the fit test between a candidate position q and a chosen position w
\* is true exactly when q # w and the distance |q - w| is at most slop, also
\* for positions 256 or more apart.
C26_FitIsTrueDistance ==
    pc # "new" =>
        \A w \in term_positions, q \in term_positions :
            fit(<<w>>, q, pq.slop)
                <=> (q # w /\ q - w \in (0 - pq.slop)..pq.slop)

(***************************************************************************)
(* The procedure of on_match with every position of a term scanned: the    *)
(* scan stops at the first position that fits, and nowhere else.           *)
(***************************************************************************)
RECURSIVE scan_every_position(_, _, _, _)
scan_every_position(positions, termx, j, slop) ==
    IF j > Len(termx) THEN positions
    ELSE IF fit(positions, termx[j], slop) THEN Append(positions, termx[j])
    ELSE scan_every_position(positions, termx, j + 1, slop)

RECURSIVE for_terms_every(_, _, _, _, _)
for_terms_every(positions, terms_rest, t, n, slop) ==
    IF t > Len(terms_rest) THEN [matched |-> FALSE, positions |-> positions]
    ELSE LET p1 == scan_every_position(positions, terms_rest[t].positions, 1, slop)
         IN  IF Len(p1) = n THEN [matched |-> TRUE, positions |-> p1]
             ELSE for_terms_every(p1, terms_rest, t + 1, n, slop)

RECURSIVE any_order_every(_, _, _, _, _)
any_order_every(positions, terms_rest, n, slop, checked_all) ==
    LET r == for_terms_every(positions, terms_rest, 1, n, slop)
    IN  IF r.matched THEN TRUE
        ELSE IF checked_all /\ Len(positions) = Len(r.positions) THEN FALSE
        ELSE any_order_every(r.positions, terms_rest, n, slop, TRUE)

\* whether the candidate with the given items matches when every position is scanned
matches_scanning_every(terms, slop) ==
    \E j \in DOMAIN terms[1].positions :
        any_order_every(<<terms[1].positions[j]>>, SubSeq(terms, 2, Len(terms)),
                        Len(terms), slop, Len(terms) - 1 = 1)

\* the hits when every position is scanned, from cursors c on
RECURSIVE collect_scanning_every(_, _, _)
collect_scanning_every(docs, c, slop) ==
    LET r == MatchingDocIterator_next(docs, c)
    IN  IF ~r.some THEN <<>>
        ELSE (IF matches_scanning_every(r.items, slop)
              THEN <<SearchHit(r.doc_id)>> ELSE <<>>)
                 \o collect_scanning_every(docs, r.cur, slop)

\* C27: stopping the scan of a term's positions at the first position that
\* does not fit and is greater than every chosen position never changes the
\* doc-ids a phrase query emits, for single-valued and multi-valued fields.
C27_ShortCircuitChangesNothing ==
    pc = "done" =>
        doc_ids(out) = doc_ids(collect_scanning_every(its, zeros(Len(its)), pq.slop))

(***************************************************************************)
(* Further claims about the postings add_doc builds.                       *)
(***************************************************************************)
\* C28: in every posting built through add_doc, the positions stored for one
\* doc entry are in ascending order.
C28_PositionsAscending ==
    \A key \in DOMAIN postings :
        LET items == iter_docs_pos(postings[key])
        IN  \A n \in DOMAIN items :
                \A i, j \in DOMAIN items[n].positions :
                    i < j => items[n].positions[i] <= items[n].positions[j]

\* the positions of the tokens equal to term among the tokens of one value
positions_of(tokens, term) ==
    LET at == { n \in DOMAIN tokens : tokens[n].token = term }
    IN  [k \in 1..Cardinality(at) |->
            tokens[CHOOSE n \in at : Cardinality({ m \in at : m < n }) = k - 1].position]

\* the positions of term in the values i.. of a field, each value tokenized
\* on its own, in value order
RECURSIVE positions_over_values(_, _, _, _)
positions_over_values(tokenizer, values, term, i) ==
    IF i > Len(values) THEN <<>>
    ELSE positions_of(tokenize(tokenizer, values[i]), term)
            \o positions_over_values(tokenizer, values, term, i + 1)

\* C29: when a document is indexed, each value of a field is tokenized on its
\* own with positions from 1, and all the positions of a term are appended, in
\* value insertion order, to the document's single doc entry of the posting
\* "field:term", whose freq is the number of occurrences over all the values.
C29_MultiValuedField ==
    [][\A doc \in Documents : \A order \in KeyOrders(DOMAIN doc) :
          (add_doc(doc, order) /\ ~has_unmapped(doc, mappings)) =>
              \A f \in DOMAIN doc, term \in QueryTerms :
                  LET want == positions_over_values(mappings[f], doc[f], term, 1)
                      p == get_postings_list(postings', key_of(f, term))
                      entries == { n \in DOMAIN p.docs : p.docs[n].doc_id = doc_id }
                  IN  IF want = <<>> THEN entries = {}
                      ELSE /\ Cardinality(entries) = 1
                           /\ \A n \in entries :
                                /\ p.docs[n].freqs = Len(want)
                                /\ iter_docs_pos(p)[n].positions = want]_vars

(***************************************************************************)
(* The must-not cursor of a boolean query.                                 *)
(***************************************************************************)
\* the doc-ids the must_not stream has yet to yield, given the cursors of its inputs
must_not_rest(nc) ==
    UNION { { nots[i][k].doc_id : k \in nc[i] + 1..Len(nots[i]) } : i \in DOMAIN nots }

\* one call of the closure on a candidate, against the rules of the walk
walk_step_ok(s) ==
    IF s.cmn.some /\ s.cmn.doc_id = s.d
    THEN /\ ~s.emit
         /\ s.ncur_after = s.ncur
         /\ s.cmn_after = s.cmn
    ELSE IF s.cmn.some /\ s.cmn.doc_id < s.d
         THEN LET rest == { x \in must_not_rest(s.ncur) : x >= s.d }
              IN  IF rest = {}
                  THEN /\ s.emit
                       /\ ~s.cmn_after.some
                       /\ must_not_rest(s.ncur_after) = {}
                  ELSE LET m == CHOOSE x \in rest : \A y \in rest : x <= y
                       IN  /\ s.emit <=> m # s.d
                           /\ s.cmn_after = [some |-> TRUE, doc_id |-> m]
                           /\ must_not_rest(s.ncur_after)
                                 = { x \in must_not_rest(s.ncur) : x > m }
         ELSE /\ s.emit
              /\ s.ncur_after = s.ncur
              /\ s.cmn_after = s.cmn

\* the calls of the closure during one next(): for each candidate pulled, the
\* candidate, the must-not cursor and the cursors of the must_not stream
\* before and after the call, and whether the candidate was kept
RECURSIVE closure_calls(_, _, _, _, _, _)
closure_calls(musts, c, mustnots, nc, cmn, walked) ==
    LET r == MatchingDocIterator_next(musts, c)
    IN  IF ~r.some THEN walked
        ELSE LET f == on_candidate(r.doc_id, cmn, mustnots, nc)
                 step == [d |-> r.doc_id, emit |-> f.emit, cmn |-> cmn, ncur |-> nc,
                          cmn_after |-> f.cmn, ncur_after |-> f.cur]
             IN  IF f.emit \/ Len(walked) > MaxDocId
                 THEN Append(walked, step)
                 ELSE closure_calls(musts, r.cur, mustnots, f.cur, f.cmn,
                                    Append(walked, step))

\* C30: in the walk of a boolean query over its candidates d with the must-not
\* cursor c: if c = d, d is dropped and the must-not stream is not consumed; if
\* c < d, the stream is advanced to d, d is dropped iff the stream holds d, and
\* c becomes the id advance returned, or exhausted; if c > d or the stream is
\* exhausted, d is emitted and nothing is consumed; once the stream is
\* exhausted every later candidate is emitted.
C30_MustNotCursorWalk ==
    [][pc = "run" =>
          LET walk == closure_calls(its, cur, nots, ncur, current_must_not_doc, <<>>)
          IN  /\ \A n \in DOMAIN walk : walk_step_ok(walk[n])
              /\ \A n \in DOMAIN walk :
                    n > 1 => /\ walk[n].cmn = walk[n - 1].cmn_after
                             /\ walk[n].ncur = walk[n - 1].ncur_after
              /\ (walk # <<>> /\ pc' # "hung") =>
                    /\ current_must_not_doc' = walk[Len(walk)].cmn_after
                    /\ ncur' = walk[Len(walk)].ncur_after
                    /\ walk[Len(walk)].emit <=> Len(out') = Len(out) + 1
              /\ ~current_must_not_doc.some =>
                    /\ ~current_must_not_doc'.some
                    /\ \A n \in DOMAIN walk : walk[n].emit]_vars

\* C30's case: the must_not stream 0, 2 against the candidates 0, 1, 2:
\* 0 is dropped at the cursor, 1 is emitted after an advance that stops at 2,
\* and 2 is dropped at the cursor
C30_Witness ==
    /\ pc = "done"
    /\ its = <<<<[doc_id |-> 0], [doc_id |-> 1], [doc_id |-> 2]>>>>
    /\ must_not_rest(zeros(Len(nots))) = {0, 2}
    /\ doc_ids(out) = <<1>>

(***************************************************************************)
(* Further claims about the index.                                         *)
(***************************************************************************)
\* C31: after any set_mapping and add_doc calls, failing ones included, every
\* stored posting has strictly increasing doc-ids, none of them greater than
\* the id the next add_token call is given.
C31_PostingIdsIncrease ==
    \A key \in DOMAIN postings :
        /\ strictly_increasing(doc_ids(iter_docs(postings[key])))
        /\ \A n \in DOMAIN postings[key].docs : postings[key].docs[n].doc_id <= doc_id

\* C31's case: after a failed add_doc and two successful ones, a posting that
\* holds both documents, the first with two occurrences of the term
C31_Witness ==
    /\ failCount = 1
    /\ okCount = 2
    /\ \E key \in DOMAIN postings :
          /\ doc_ids(iter_docs(postings[key])) = <<0, 1>>
          /\ postings[key].docs[1].freqs >= 2

\* C32: after any set_mapping and add_doc calls, failing ones included, every
\* doc-id stored in a posting is smaller than the next doc-id, and for every
\* doc entry of the posting "field:term" with doc-id d, the document that was
\* successfully added under d has the token term in that field.
C32_EntriesBelongToIndexedDocs ==
    \A field \in Fields, term \in QueryTerms :
        LET items == iter_docs(get_postings_list(postings, key_of(field, term)))
        IN  \A n \in DOMAIN items :
                /\ items[n].doc_id < doc_id
                /\ items[n].doc_id + 1 \in DOMAIN produced
                /\ <<field, term>> \in produced[items[n].doc_id + 1]

\* C33: in every index state and for every document, whether add_doc returns
\* Ok or Err and the postings and next doc-id it leaves do not depend on the
\* order in which Document::fields yields the document's fields.
C33_FieldOrderIrrelevant ==
    \A doc \in Documents : \A o1, o2 \in KeyOrders(DOMAIN doc) :
        LET r1 == add_doc_loop(postings, mappings, fields(doc, o1), 1, doc_id)
            r2 == add_doc_loop(postings, mappings, fields(doc, o2), 1, doc_id)
        IN  /\ r1.ok = r2.ok
            /\ DOMAIN r1.postings = DOMAIN r2.postings
            /\ \A key \in DOMAIN r1.postings : r1.postings[key] = r2.postings[key]

\* the hits of a TermQuery with a doc-id smaller than d
hits_below(ps, field, term, d) ==
    SelectSeq(TermQuery_execute(ps, field, term), LAMBDA hit : hit.doc_id < d)

\* C34: postings are append-only: a step of the index under doc-id d removes
\* no posting and leaves every doc entry with a doc-id smaller than d as it
\* was (doc-id, freqs, positions_offset and its positions), so the hits with
\* an id smaller than d of every TermQuery are the same before and after.
C34_PostingsAppendOnly ==
    [][ /\ \A key \in DOMAIN postings :
              /\ key \in DOMAIN postings'
              /\ \A n \in DOMAIN postings[key].docs :
                    postings[key].docs[n].doc_id < doc_id =>
                        /\ n \in DOMAIN postings'[key].docs
                        /\ postings'[key].docs[n] = postings[key].docs[n]
                        /\ iter_docs_pos(postings'[key])[n].positions
                               = iter_docs_pos(postings[key])[n].positions
        /\ \A field \in Fields, term \in QueryTerms :
              hits_below(postings', field, term, doc_id)
                  = hits_below(postings, field, term, doc_id) ]_vars

C34_Witness ==
    /\ res.op = "add_doc"
    /\ res.ok
    /\ doc_id = 2
    /\ \E key \in DOMAIN postings :
          /\ Len(postings[key].docs) = 2
          /\ postings[key].docs[1].doc_id = 0
          /\ postings[key].docs[2].doc_id = 1
          /\ postings[key].docs[2].positions_offset >= 1

\* whether every field of the document is mapped and no value yields a token
yields_no_token(doc, maps) ==
    /\ ~has_unmapped(doc, maps)
    /\ \A f \in DOMAIN doc : \A i \in DOMAIN doc[f] :
           tokenize(maps[f], doc[f][i]) = <<>>

\* C35: add_doc of a document that yields no token (no field, or only mapped
\* fields whose values are empty or whitespace) returns Ok, leaves the
\* postings as they were and advances the doc-id by one, and the id taken by
\* the document is returned by no TermQuery.
C35_EmptyDocument ==
    [][\A doc \in Documents : \A order \in KeyOrders(DOMAIN doc) :
          (add_doc(doc, order) /\ yields_no_token(doc, mappings)) =>
              /\ res'.ok
              /\ postings' = postings
              /\ doc_id' = doc_id + 1
              /\ \A field \in Fields, term \in QueryTerms :
                    LET hits == TermQuery_execute(postings', field, term)
                    IN  \A n \in DOMAIN hits : hits[n].doc_id # doc_id]_vars

\* the <<field, term>> pairs produced by the documents added so far
produced_pairs == UNION { produced[d] : d \in DOMAIN produced }

\* C36: after successful add_doc calls only, the keys of the postings are
\* exactly the "field:term" strings of the tokens the indexed documents
\* produced, every posting has at least one doc entry, every doc entry has
\* freqs >= 1, and a posting has as many doc entries as there are documents
\* that produced its key.
C36_KeysAndLengths ==
    failCount = 0 =>
        /\ DOMAIN postings = { key_of(pair[1], pair[2]) : pair \in produced_pairs }
        /\ \A key \in DOMAIN postings :
              /\ Len(postings[key].docs) >= 1
              /\ \A n \in DOMAIN postings[key].docs : postings[key].docs[n].freqs >= 1
        /\ \A pair \in produced_pairs :
              Len(get_postings_list(postings, key_of(pair[1], pair[2])).docs)
                  = Cardinality({ d \in DOMAIN produced : pair \in produced[d] })

C36_Witness ==
    /\ failCount = 0
    /\ Len(produced) = 2
    /\ \E key \in DOMAIN postings :
          /\ Len(postings[key].docs) = 2
          /\ postings[key].docs[2].freqs = 2
    /\ \E key \in DOMAIN postings : Len(postings[key].docs) = 1

\* whether the text of the field holds the term in some letter case
in_text(values, term) ==
    \E i \in DOMAIN values :
        LET raw == tokenize([filters |-> <<>>], values[i])
        IN  \E n \in DOMAIN raw : to_lowercase(raw[n].token) = to_lowercase(term)

\* the doc-ids a phrase query of the single term finds
one_term_phrase_ids(ps, field, term) ==
    id_set(PhraseQuery_search(ps, PhraseQuery_new(field, <<term>>)))

\* C37: query terms are looked up verbatim: when a document is added under
\* doc-id d, for each of its fields whose tokenizer has the LowerCase filter,
\* a TermQuery or PhraseQuery with a term holding an upper-case letter finds
\* no document, and the same query with the lower-cased term finds d exactly
\* if the text of the field holds the term in some letter case.
C37_TermsLookedUpVerbatim ==
    [][\A doc \in Documents : \A order \in KeyOrders(DOMAIN doc) :
          (add_doc(doc, order) /\ ~has_unmapped(doc, mappings)) =>
              \A f \in DOMAIN doc, term \in QueryTerms :
                  mappings[f].filters = <<"LowerCase">> =>
                      /\ to_lowercase(term) # term =>
                            /\ TermQuery_execute(postings', f, term) = <<>>
                            /\ one_term_phrase_ids(postings', f, term) = {}
                      /\ doc_id \in id_set(TermQuery_execute(postings', f, to_lowercase(term)))
                            <=> in_text(doc[f], term)
                      /\ doc_id \in one_term_phrase_ids(postings', f, to_lowercase(term))
                            <=> in_text(doc[f], term)]_vars

====
